---- MODULE Spec2Model ----
(***************************************************************************)
(* Model of the task API of Multi_Tier_GitOps: the CORS middleware, the    *)
(* task handlers, the task service and the task repository over the tasks  *)
(* table.                                                                  *)
(*                                                                         *)
(* A Go string is a sequence of one-character strings wherever the code    *)
(* looks inside it (origins, allow-list entries, titles, descriptions); it *)
(* is a TLA+ string where the code only compares it as a whole (methods,   *)
(* status values, identifiers, fixed messages).                            *)
(***************************************************************************)
EXTENDS Integers, Sequences, FiniteSets, TLC

VARIABLES
    cfg,       \* config.CORSConfig, read-only after start
    corsPc,    \* "request": a request waits at the CORS middleware; "served"
    corsReq,   \* that request: its method and its Origin header
    corsResp,  \* what the CORS middleware did for it
    tasks,     \* the tasks table: a function from the ids of its rows to the rows
    nextId,    \* how many ids gen_random_uuid() has handed out
    dbNow,     \* the storage engine's clock, NOW()
    apiNow,    \* the API process's clock, time.Now()
    call,      \* per request slot, the frame of a TaskRepository.Update in flight
    resp,      \* the last response a task handler wrote
    mainPc,    \* where main is: "serving", "shutdown", "closing", "stopped", "exited"
    dbOpen     \* whether the database pool is open

corsVars == <<cfg, corsPc, corsReq, corsResp>>

taskVars == <<tasks, nextId, dbNow, apiNow, call, resp>>

lifeVars == <<mainPc, dbOpen>>

vars ==
    <<cfg, corsPc, corsReq, corsResp, tasks, nextId, dbNow, apiNow, call, resp,
      mainPc, dbOpen>>

(***************************************************************************)
(* Bounds of the model.                                                    *)
(***************************************************************************)
\* longest Origin header value drawn
MaxOriginLen == 3
\* longest allow-list drawn for cfg.AllowedOrigins
MaxListLen == 2

\* last value of either clock
MaxTime == 1

\* all sequences over S of length at most n
SeqsUpTo(S, n) == UNION {[1..k -> S] : k \in 0..n}

(***************************************************************************)
(* package strings                                                         *)
(***************************************************************************)
HasPrefix(s, prefix) ==
    /\ Len(s) >= Len(prefix)
    /\ SubSeq(s, 1, Len(prefix)) = prefix

HasSuffix(s, suffix) ==
    /\ Len(s) >= Len(suffix)
    /\ SubSeq(s, Len(s) - Len(suffix) + 1, Len(s)) = suffix

TrimPrefix(s, prefix) ==
    IF HasPrefix(s, prefix) THEN SubSeq(s, Len(prefix) + 1, Len(s)) ELSE s

RECURSIVE JoinFrom(_, _, _)
JoinFrom(elems, sep, i) ==
    IF i > Len(elems) THEN <<>>
    ELSE IF i = Len(elems) THEN <<elems[i]>>
    ELSE <<elems[i], sep>> \o JoinFrom(elems, sep, i + 1)

\* strings.Join over whole strings: the elements with sep between them
Join(elems, sep) == JoinFrom(elems, sep, 1)

\* strconv.Itoa
Itoa(n) == ToString(n)

(***************************************************************************)
(* CORS middleware (pkg/middleware)                                        *)
(***************************************************************************)
Wildcard == <<"*">>
WildcardDot == <<"*", ".">>

\* the loop of isOriginAllowed from entry i on
RECURSIVE allowedLoop(_, _, _)
allowedLoop(origin, allowedOrigins, i) ==
    IF i > Len(allowedOrigins) THEN FALSE
    ELSE LET allowed == allowedOrigins[i] IN
         IF allowed = Wildcard THEN TRUE
         ELSE IF allowed = origin THEN TRUE
         ELSE IF /\ HasPrefix(allowed, WildcardDot)
                 /\ HasSuffix(origin, TrimPrefix(allowed, Wildcard))
              THEN TRUE
         ELSE allowedLoop(origin, allowedOrigins, i + 1)

\* mutant: the subdomain pattern is trimmed of "*." and so matches without the dot
RECURSIVE allowedLoop_NoDot(_, _, _)
allowedLoop_NoDot(origin, allowedOrigins, i) ==
    IF i > Len(allowedOrigins) THEN FALSE
    ELSE LET allowed == allowedOrigins[i] IN
         IF allowed = Wildcard THEN TRUE
         ELSE IF allowed = origin THEN TRUE
         ELSE IF /\ HasPrefix(allowed, WildcardDot)
                 /\ HasSuffix(origin, TrimPrefix(allowed, WildcardDot))
              THEN TRUE
         ELSE allowedLoop_NoDot(origin, allowedOrigins, i + 1)

isOriginAllowed_NoDot(origin, allowedOrigins) ==
    IF origin = <<>> THEN FALSE
    ELSE allowedLoop_NoDot(origin, allowedOrigins, 1)

\* mutant: only the literal wildcard and exact entries are recognised
isOriginAllowed_NoSubdomain(origin, allowedOrigins) ==
    IF origin = <<>> THEN FALSE
    ELSE \E i \in 1..Len(allowedOrigins) :
            allowedOrigins[i] = Wildcard \/ allowedOrigins[i] = origin

\* mutant: the literal wildcard is left to the caller's containsWildcard
isOriginAllowed_NoStar(origin, allowedOrigins) ==
    IF origin = <<>> THEN FALSE
    ELSE \E i \in 1..Len(allowedOrigins) :
            \/ allowedOrigins[i] = origin
            \/ /\ HasPrefix(allowedOrigins[i], WildcardDot)
               /\ HasSuffix(origin, TrimPrefix(allowedOrigins[i], Wildcard))

isOriginAllowed(origin, allowedOrigins) ==
    IF origin = <<>> THEN FALSE
    ELSE allowedLoop(origin, allowedOrigins, 1)

RECURSIVE wildcardLoop(_, _)
wildcardLoop(allowedOrigins, i) ==
    IF i > Len(allowedOrigins) THEN FALSE
    ELSE IF allowedOrigins[i] = Wildcard THEN TRUE
    ELSE wildcardLoop(allowedOrigins, i + 1)

containsWildcard(allowedOrigins) == wildcardLoop(allowedOrigins, 1)

\* http.Header: a function from the names that are set to their values
NoHeaders == [name \in {} |-> <<>>]

HeaderSet(h, name, value) ==
    [n \in DOMAIN h \cup {name} |-> IF n = name THEN value ELSE h[n]]

StatusNoContent == 204

\* the headers the middleware sets before it looks at the method
CORSHeaders(c, origin) ==
    LET h1 == IF isOriginAllowed(origin, c.AllowedOrigins)
              THEN HeaderSet(NoHeaders, "Access-Control-Allow-Origin", origin)
              ELSE IF containsWildcard(c.AllowedOrigins)
              THEN HeaderSet(NoHeaders, "Access-Control-Allow-Origin", Wildcard)
              ELSE NoHeaders
        h2 == IF Len(c.AllowedMethods) > 0
              THEN HeaderSet(h1, "Access-Control-Allow-Methods",
                             Join(c.AllowedMethods, ", "))
              ELSE h1
        h3 == IF Len(c.AllowedHeaders) > 0
              THEN HeaderSet(h2, "Access-Control-Allow-Headers",
                             Join(c.AllowedHeaders, ", "))
              ELSE h2
        h4 == IF Len(c.ExposedHeaders) > 0
              THEN HeaderSet(h3, "Access-Control-Expose-Headers",
                             Join(c.ExposedHeaders, ", "))
              ELSE h3
        h5 == IF c.AllowCredentials
              THEN HeaderSet(h4, "Access-Control-Allow-Credentials", <<"true">>)
              ELSE h4
        h6 == IF c.MaxAge > 0
              THEN HeaderSet(h5, "Access-Control-Max-Age", <<Itoa(c.MaxAge)>>)
              ELSE h5
    IN h6

\* mutant: the preflight branch writes 204 and falls through to next
CORSResponse_NoReturn(c, method, origin) ==
    [headers   |-> CORSHeaders(c, origin),
     status    |-> IF method = "OPTIONS" THEN StatusNoContent ELSE 0,
     body      |-> FALSE,
     nextCalls |-> 1]

\* mutant: a request whose origin gets no Access-Control-Allow-Origin is
\* answered 403 by the middleware
CORSResponse_DeniedIsBlocked(c, method, origin) ==
    LET denied == "Access-Control-Allow-Origin" \notin DOMAIN CORSHeaders(c, origin)
    IN [headers   |-> CORSHeaders(c, origin),
        status    |-> IF method = "OPTIONS" THEN StatusNoContent
                      ELSE IF denied THEN 403 ELSE 0,
        body      |-> FALSE,
        nextCalls |-> IF method = "OPTIONS" \/ denied THEN 0 ELSE 1]

\* what the middleware has done when it returns: the headers it set, the
\* status it wrote itself (0: none, the next handler answers), whether it
\* wrote a body, and how many times it called next.ServeHTTP
CORSResponse(c, method, origin) ==
    [headers   |-> CORSHeaders(c, origin),
     status    |-> IF method = "OPTIONS" THEN StatusNoContent ELSE 0,
     body      |-> FALSE,
     nextCalls |-> IF method = "OPTIONS" THEN 0 ELSE 1]

\* the handler returned by CORS(cfg), serving the request drawn at start
CORS ==
    /\ corsPc = "request"
    /\ corsResp' = CORSResponse(cfg, corsReq.method, corsReq.origin)
    /\ corsPc' = "served"
    /\ UNCHANGED <<cfg, corsReq>>
    /\ UNCHANGED taskVars
    /\ UNCHANGED lifeVars

(***************************************************************************)
(* Inputs of the CORS middleware.                                          *)
(***************************************************************************)
\* characters of an Origin header value: a browser never sends "*"
OriginChars == {".", "a"}

Origins == SeqsUpTo(OriginChars, MaxOriginLen)

\* allow-list entries: the literal wildcard, subdomain patterns (one with an
\* empty domain) and exact origins
OriginEntries ==
    { <<"*">>, <<"*", ".", "a">>, <<"*", ".">>,
      <<"a">>, <<".", "a">>, <<"a", ".", "a">> }

OriginLists == SeqsUpTo(OriginEntries, MaxListLen)

Methods == {"OPTIONS", "GET", "PUT"}

\* the config.CORSConfig values CORS is handed: NewConfig fills the struct from
\* the environment, other callers as they like, so a list may be empty
CORSConfigs ==
    [AllowedOrigins   : OriginLists,
     AllowedMethods   : {<<>>, <<"GET", "POST">>},
     AllowedHeaders   : {<<>>, <<"Content-Type">>},
     ExposedHeaders   : {<<>>, <<"X-Request-ID">>},
     AllowCredentials : BOOLEAN,
     MaxAge           : {0, 300}]

NoResponse == [headers |-> NoHeaders, status |-> 0, body |-> FALSE, nextCalls |-> 0]

(***************************************************************************)
(* Errors: the sentinels an error wraps (what errors.Is finds) and the     *)
(* text Error() renders, kept as its parts.                                *)
(***************************************************************************)
ErrorsNew(name, text) == [is |-> {name}, text |-> <<text>>]

\* fmt.Errorf(prefix + ": %w", err)
Errorf(prefix, err) == [is |-> err.is, text |-> <<prefix, ": ">> \o err.text]

ErrorsIs(err, target) == target \in err.is

NoError == [is |-> {}, text |-> <<>>]

SqlErrNoRows == ErrorsNew("sql.ErrNoRows", "sql: no rows in result set")
RepoErrTaskNotFound == ErrorsNew("repository.ErrTaskNotFound", "task not found")
SvcErrTaskNotFound == ErrorsNew("service.ErrTaskNotFound", "task not found")
SvcErrValidation == ErrorsNew("service.ErrValidation", "validation error")
\* the driver's error when the connection or the context fails
DriverError == ErrorsNew("driver", "driver: bad connection")
\* the storage engine's error for a text that is no uuid
InvalidUUIDError == ErrorsNew("pq", "pq: invalid input syntax for type uuid")

(***************************************************************************)
(* model: requests and tasks. A pointer field is <<>> when nil and <<v>>   *)
(* when it points to v.                                                    *)
(***************************************************************************)
Nil == <<>>
Ptr(v) == <<v>>
Deref(p) == p[1]

MinTitleLen == 1
MaxTitleLen == 255
MaxDescriptionLen == 1000

Statuses == {"pending", "in_progress", "completed"}

\* a string of n characters
StringOfLen(n) == [i \in 1..n |-> "x"]

\* the validate tags of CreateTaskRequest
CreateTaskRequestTags ==
    << [Field |-> "Title",
        tags  |-> << [name |-> "required", param |-> ""],
                     [name |-> "min", n |-> MinTitleLen, param |-> ToString(MinTitleLen)],
                     [name |-> "max", n |-> MaxTitleLen, param |-> ToString(MaxTitleLen)] >>],
       [Field |-> "Description",
        tags  |-> << [name |-> "max", n |-> MaxDescriptionLen,
                      param |-> ToString(MaxDescriptionLen)] >>] >>

\* the validate tags of UpdateTaskRequest
UpdateTaskRequestTags ==
    << [Field |-> "Title",
        tags  |-> << [name |-> "omitempty", param |-> ""],
                     [name |-> "min", n |-> MinTitleLen, param |-> ToString(MinTitleLen)],
                     [name |-> "max", n |-> MaxTitleLen, param |-> ToString(MaxTitleLen)] >>],
       [Field |-> "Description",
        tags  |-> << [name |-> "omitempty", param |-> ""],
                     [name |-> "max", n |-> MaxDescriptionLen,
                      param |-> ToString(MaxDescriptionLen)] >>],
       [Field |-> "Status",
        tags  |-> << [name |-> "omitempty", param |-> ""],
                     [name |-> "oneof", allowed |-> Statuses,
                      param |-> "pending in_progress completed"] >>] >>

(***************************************************************************)
(* validator.Validate.Struct: per field in declared order, the first tag   *)
(* that fails. A field is given as a pointer; a plain string field is a    *)
(* pointer that is never nil.                                              *)
(***************************************************************************)
\* mutant: oneof lets the empty string through
TagFails_EmptyStatusPasses(tag, v) ==
    CASE tag.name = "required" -> v = <<>>
      [] tag.name = "min"      -> Len(v) < tag.n
      [] tag.name = "max"      -> Len(v) > tag.n
      [] tag.name = "oneof"    -> v # "" /\ v \notin tag.allowed
      [] OTHER                 -> FALSE

TagFails(tag, v) ==
    CASE tag.name = "required" -> v = <<>>
      [] tag.name = "min"      -> Len(v) < tag.n
      [] tag.name = "max"      -> Len(v) > tag.n
      [] tag.name = "oneof"    -> v \notin tag.allowed
      [] OTHER                 -> FALSE

\* the index of the first failing tag of a field, 0 when none fails
RECURSIVE FirstFailingTag(_, _, _)
FirstFailingTag(tags, p, i) ==
    IF i > Len(tags) THEN 0
    ELSE IF tags[i].name = "omitempty"
         THEN IF p = Nil THEN 0 ELSE FirstFailingTag(tags, p, i + 1)
    ELSE IF TagFails(tags[i], Deref(p)) THEN i
    ELSE FirstFailingTag(tags, p, i + 1)

\* validator.ValidationErrors of a struct: fields[i] described by spec[i]
RECURSIVE ValidationErrorsFrom(_, _, _)
ValidationErrorsFrom(spec, fields, i) ==
    IF i > Len(spec) THEN <<>>
    ELSE LET t == FirstFailingTag(spec[i].tags, fields[i], 1) IN
         (IF t = 0 THEN <<>>
          ELSE << [Field |-> spec[i].Field,
                   Tag   |-> spec[i].tags[t].name,
                   Param |-> spec[i].tags[t].param] >>)
         \o ValidationErrorsFrom(spec, fields, i + 1)

ValidateStruct(spec, fields) == ValidationErrorsFrom(spec, fields, 1)

\* the message formatValidationErrors gives one FieldError
FieldErrorMessage(e) ==
    CASE e.Tag = "required" -> <<e.Field, " is required">>
      [] e.Tag = "min"      -> <<e.Field, " must be at least ", e.Param, " characters">>
      [] e.Tag = "max"      -> <<e.Field, " must be at most ", e.Param, " characters">>
      [] e.Tag = "oneof"    -> <<e.Field, " must be one of: ", e.Param>>
      [] OTHER              -> <<e.Field, " is invalid">>

\* mutant: the message of the last FieldError
formatValidationErrors_Last(errs) == FieldErrorMessage(errs[Len(errs)])

\* mutant: every message, joined
RECURSIVE JoinedMessages(_, _)
JoinedMessages(errs, i) ==
    IF i > Len(errs) THEN <<>>
    ELSE (IF i > 1 THEN <<"; ">> ELSE <<>>)
         \o FieldErrorMessage(errs[i]) \o JoinedMessages(errs, i + 1)

formatValidationErrors_Joined(errs) == JoinedMessages(errs, 1)

\* formatValidationErrors on a non-empty validator.ValidationErrors
formatValidationErrors(errs) == FieldErrorMessage(errs[1])

\* fmt.Errorf("%w: %s", ErrValidation, formatValidationErrors(err))
ValidationFailure(errs) ==
    [is   |-> SvcErrValidation.is,
     text |-> SvcErrValidation.text \o <<": ">> \o formatValidationErrors(errs)]

CreateFields(req) == <<Ptr(req.Title), Ptr(req.Description)>>
UpdateFields(req) == <<req.Title, req.Description, req.Status>>

(***************************************************************************)
(* The tasks table behind database/sql.                                    *)
(***************************************************************************)
\* the values gen_random_uuid() returns, in the order it returns them
UUIDs == << <<"uuid", "1">> >>

\* the n-th value of gen_random_uuid()
GenUUID(n) == UUIDs[n]

\* whether the storage engine accepts the text as a uuid
IsUUID(id) == Len(id) = 2 /\ id[1] = "uuid"

\* how a statement with WHERE id = $1 ends: "fault" (connection or context
\* failed), "invalid_uuid" (the text is no uuid), "norow", "row"
DbOutcome(t, id, fault) ==
    IF fault THEN "fault"
    ELSE IF ~IsUUID(id) THEN "invalid_uuid"
    ELSE IF id \notin DOMAIN t THEN "norow"
    ELSE "row"

\* the error QueryRowContext(...).Scan returns
ScanError(outcome) ==
    CASE outcome = "fault"        -> DriverError
      [] outcome = "invalid_uuid" -> InvalidUUIDError
      [] outcome = "norow"        -> SqlErrNoRows
      [] OTHER                    -> NoError

\* the error ExecContext returns
ExecError(outcome) ==
    CASE outcome = "fault"        -> DriverError
      [] outcome = "invalid_uuid" -> InvalidUUIDError
      [] OTHER                    -> NoError

\* the row INSERT INTO tasks (title, description, status) stores and returns
InsertedRow(n, title, description, status, now) ==
    [id          |-> GenUUID(n),
     title       |-> title,
     description |-> description,
     status      |-> status,
     created_at  |-> now,
     updated_at  |-> now]

TableInsert(t, row) ==
    [i \in DOMAIN t \cup {row.id} |-> IF i = row.id THEN row ELSE t[i]]

TableDelete(t, id) == [i \in DOMAIN t \ {id} |-> t[i]]

(***************************************************************************)
(* repository.TaskRepository                                               *)
(***************************************************************************)
\* mutant: the INSERT is given another status
RepoCreateRow_StatusCompleted(n, task, now) ==
    InsertedRow(n, task.Title, task.Description, "completed", now)

\* Create: the task inserted, status given as the literal "pending"
RepoCreateRow(n, task, now) ==
    InsertedRow(n, task.Title, task.Description, "pending", now)

RepoCreateError(fault) ==
    IF fault THEN Errorf("failed to create task", DriverError) ELSE NoError

\* mutant: sql.ErrNoRows is wrapped like any other error of the SELECT
RepoGetByIDError_NoRowIsFailure(outcome) ==
    IF outcome = "row" THEN NoError
    ELSE Errorf("failed to get task", ScanError(outcome))

\* GetByID: the error returned
RepoGetByIDError(outcome) ==
    IF outcome = "row" THEN NoError
    ELSE IF ErrorsIs(ScanError(outcome), "sql.ErrNoRows") THEN RepoErrTaskNotFound
    ELSE Errorf("failed to get task", ScanError(outcome))

\* the orders in which SELECT ... ORDER BY created_at DESC may return the rows
Orderings(t) ==
    { o \in [1..Cardinality(DOMAIN t) -> DOMAIN t] :
        /\ \A i, j \in DOMAIN o : i # j => o[i] # o[j]
        /\ \A i, j \in DOMAIN o : i < j => t[o[i]].created_at >= t[o[j]].created_at }

\* GetAll: the slice returned; var tasks stays nil when no row is appended
RepoGetAllTasks(t, order) ==
    [isNil |-> Len(order) = 0, elems |-> [i \in 1..Len(order) |-> t[order[i]]]]

RepoGetAllError(fault) ==
    IF fault THEN Errorf("failed to get tasks", DriverError) ELSE NoError

\* mutant: a nil Description pointer writes the zero value
Merge_NilOverwrites(currentTask, updates) ==
    [currentTask EXCEPT
        !.title       = IF updates.Title # Nil THEN Deref(updates.Title) ELSE @,
        !.description = IF updates.Description # Nil THEN Deref(updates.Description)
                        ELSE <<>>,
        !.status      = IF updates.Status # Nil THEN Deref(updates.Status) ELSE @]

\* mutant: a completed task keeps its status
Merge_CompletedIsFinal(currentTask, updates) ==
    [currentTask EXCEPT
        !.title       = IF updates.Title # Nil THEN Deref(updates.Title) ELSE @,
        !.description = IF updates.Description # Nil THEN Deref(updates.Description)
                        ELSE @,
        !.status      = IF updates.Status # Nil /\ @ # "completed"
                        THEN Deref(updates.Status) ELSE @]

\* Update, "Apply updates": currentTask after the three assignments
Merge(currentTask, updates) ==
    [currentTask EXCEPT
        !.title       = IF updates.Title # Nil THEN Deref(updates.Title) ELSE @,
        !.description = IF updates.Description # Nil THEN Deref(updates.Description)
                        ELSE @,
        !.status      = IF updates.Status # Nil THEN Deref(updates.Status) ELSE @]

\* mutant: the UPDATE leaves the title out of its SET list
UpdatedRow_TitleNotWritten(row, currentTask, now) ==
    [row EXCEPT !.description = currentTask.description,
                !.status      = currentTask.status,
                !.updated_at  = now]

\* mutant: the UPDATE sets created_at as well
UpdatedRow_TouchesCreatedAt(row, currentTask, now) ==
    [row EXCEPT !.title       = currentTask.title,
                !.description = currentTask.description,
                !.status      = currentTask.status,
                !.created_at  = now,
                !.updated_at  = now]

\* Update: the row after UPDATE tasks SET title, description, status, updated_at
UpdatedRow(row, currentTask, now) ==
    [row EXCEPT !.title       = currentTask.title,
                !.description = currentTask.description,
                !.status      = currentTask.status,
                !.updated_at  = now]

\* Update: the error its UPDATE ... RETURNING statement ends in
RepoUpdateWriteError(outcome) ==
    IF outcome = "row" THEN NoError
    ELSE Errorf("failed to update task", ScanError(outcome))

\* mutant: rowsAffected is not looked at
RepoDeleteError_IgnoresRowsAffected(outcome) ==
    IF ExecError(outcome) # NoError
    THEN Errorf("failed to delete task", ExecError(outcome))
    ELSE NoError

\* Delete: the error returned; rowsAffected is 0 when no row matched
RepoDeleteError(outcome) ==
    IF ExecError(outcome) # NoError
    THEN Errorf("failed to delete task", ExecError(outcome))
    ELSE IF outcome = "norow" THEN RepoErrTaskNotFound
    ELSE NoError

(***************************************************************************)
(* service.TaskService                                                     *)
(***************************************************************************)
\* mutant: Create does not validate
SvcCreateValidation_Skipped(req) == <<>>

SvcCreateValidation(req) == ValidateStruct(CreateTaskRequestTags, CreateFields(req))

\* mutant: Update does not validate
SvcUpdateValidation_Skipped(req) == <<>>

\* mutant: only the title is validated before the repository is called
SvcUpdateValidation_TitleOnly(req) ==
    ValidateStruct(SubSeq(UpdateTaskRequestTags, 1, 1), <<req.Title>>)

SvcUpdateValidation(req) == ValidateStruct(UpdateTaskRequestTags, UpdateFields(req))

\* the task Create hands to the repository
SvcCreateTask(req) == [Title |-> req.Title, Description |-> req.Description]

SvcCreateError(err) ==
    IF err = NoError THEN NoError ELSE Errorf("failed to create task", err)

SvcGetByIDError(err) ==
    IF err = NoError THEN NoError
    ELSE IF ErrorsIs(err, "repository.ErrTaskNotFound") THEN SvcErrTaskNotFound
    ELSE Errorf("failed to get task", err)

SvcUpdateError(err) ==
    IF err = NoError THEN NoError
    ELSE IF ErrorsIs(err, "repository.ErrTaskNotFound") THEN SvcErrTaskNotFound
    ELSE Errorf("failed to update task", err)

\* mutant: every error of the repository's Delete is taken for a missing task
SvcDeleteError_AllNotFound(err) ==
    IF err = NoError THEN NoError ELSE SvcErrTaskNotFound

SvcDeleteError(err) ==
    IF err = NoError THEN NoError
    ELSE IF ErrorsIs(err, "repository.ErrTaskNotFound") THEN SvcErrTaskNotFound
    ELSE Errorf("failed to delete task", err)

SvcGetAllError(err) ==
    IF err = NoError THEN NoError ELSE Errorf("failed to get tasks", err)

\* mutant: the description is left out of the response
ToResponse_DropsDescription(t) ==
    [id          |-> t.id,
     title       |-> t.title,
     description |-> <<>>,
     status      |-> t.status,
     created_at  |-> t.created_at,
     updated_at  |-> t.updated_at]

\* model.Task.ToResponse
ToResponse(t) ==
    [id          |-> t.id,
     title       |-> t.title,
     description |-> t.description,
     status      |-> t.status,
     created_at  |-> t.created_at,
     updated_at  |-> t.updated_at]

\* mutant: GetAll returns the slice as the loop left it
SvcGetAllResponses_NoEmptySlice(ts) ==
    [isNil |-> ts.isNil, elems |-> [i \in 1..Len(ts.elems) |-> ToResponse(ts.elems[i])]]

\* GetAll: the responses appended to a nil slice, an empty slice put in place
\* of a nil one
SvcGetAllResponses(ts) ==
    LET responses == [isNil |-> Len(ts.elems) = 0,
                      elems |-> [i \in 1..Len(ts.elems) |-> ToResponse(ts.elems[i])]]
    IN IF responses.isNil THEN [isNil |-> FALSE, elems |-> <<>>] ELSE responses

(***************************************************************************)
(* pkg: the response helpers. A response is the status written, the text   *)
(* of its error field (<<>>: none) and the task in its body (<<>>: none).  *)
(***************************************************************************)
StatusOK == 200
StatusCreated == 201
StatusBadRequest == 400
StatusNotFound == 404
StatusInternalServerError == 500
StatusServiceUnavailable == 503

JSONSuccess(task) == [status |-> StatusOK, error |-> <<>>, body |-> <<task>>]
Created(task) == [status |-> StatusCreated, error |-> <<>>, body |-> <<task>>]
NoContent == [status |-> StatusNoContent, error |-> <<>>, body |-> <<>>]
BadRequest(message) == [status |-> StatusBadRequest, error |-> message, body |-> <<>>]
NotFound(message) == [status |-> StatusNotFound, error |-> message, body |-> <<>>]
InternalError(message) ==
    [status |-> StatusInternalServerError, error |-> message, body |-> <<>>]
ServiceUnavailable(data) ==
    [status |-> StatusServiceUnavailable, error |-> <<>>, body |-> <<data>>]

(***************************************************************************)
(* handler.HealthHandler. What it hands to WriteJSON is kept with its JSON *)
(* type: a Go string is encoded as a JSON string, a struct as an object.   *)
(***************************************************************************)
JSONString(text) == [json |-> "string", value |-> text]
JSONObject(v) == [json |-> "object", value |-> v]

StatKeys ==
    {"open_connections", "in_use", "idle", "max_open", "wait_count", "wait_duration"}

\* checkDatabase: the ServiceInfo for the error PingContext returned
checkDatabase(pingErr) ==
    IF pingErr # NoError
    THEN [Status  |-> "unhealthy",
          Message |-> <<"Failed to ping database">>,
          Details |-> [k \in {"error"} |-> pingErr.text]]
    ELSE [Status  |-> "healthy",
          Message |-> <<"Database connection is active">>,
          Details |-> [k \in StatKeys |-> <<"db.Stats()">>]]

\* healthCheckHandler: what it answers
healthCheckHandler(pingErr) ==
    LET dbStatus   == checkDatabase(pingErr)
        healthResp == [Status   |-> IF dbStatus.Status = "unhealthy"
                                    THEN "unhealthy" ELSE "healthy",
                       Services |-> [database |-> dbStatus]]
    IN IF dbStatus.Status = "unhealthy"
       THEN ServiceUnavailable(JSONString(<<"Service unhealthy">>))
       ELSE JSONSuccess(JSONObject(healthResp))

(***************************************************************************)
(* handler.TaskHandler: what each handler answers                          *)
(***************************************************************************)
IdRequired == BadRequest(<<"Task ID is required">>)
InvalidJSON == BadRequest(<<"Invalid JSON payload">>)

HandlerCreateAnswer(err, task) ==
    IF err = NoError THEN Created(task)
    ELSE IF ErrorsIs(err, "service.ErrValidation") THEN BadRequest(err.text)
    ELSE InternalError(<<"Failed to create task">>)

HandlerGetAllAnswer(err, responses) ==
    IF err = NoError THEN JSONSuccess(responses)
    ELSE InternalError(<<"Failed to retrieve tasks">>)

HandlerGetByIDAnswer(err, task) ==
    IF err = NoError THEN JSONSuccess(task)
    ELSE IF ErrorsIs(err, "service.ErrTaskNotFound") THEN NotFound(<<"Task not found">>)
    ELSE InternalError(<<"Failed to retrieve task">>)

\* mutant: the 500 of Update carries the text of the error
HandlerUpdateAnswer_LeaksError(err, task) ==
    IF err = NoError THEN JSONSuccess(task)
    ELSE IF ErrorsIs(err, "service.ErrValidation") THEN BadRequest(err.text)
    ELSE IF ErrorsIs(err, "service.ErrTaskNotFound") THEN NotFound(<<"Task not found">>)
    ELSE InternalError(err.text)

HandlerUpdateAnswer(err, task) ==
    IF err = NoError THEN JSONSuccess(task)
    ELSE IF ErrorsIs(err, "service.ErrValidation") THEN BadRequest(err.text)
    ELSE IF ErrorsIs(err, "service.ErrTaskNotFound") THEN NotFound(<<"Task not found">>)
    ELSE InternalError(<<"Failed to update task">>)

HandlerDeleteAnswer(err) ==
    IF err = NoError THEN NoContent
    ELSE IF ErrorsIs(err, "service.ErrTaskNotFound") THEN NotFound(<<"Task not found">>)
    ELSE InternalError(<<"Failed to delete task">>)

\* the response as the model keeps it: the answer, with the handler that
\* wrote it, the id of its path, the body it was sent (Nil: none it could
\* decode) and how
\* its last storage statement ended ("none": it issued no statement)
Answered(op, id, req, db, answer) ==
    [op |-> op, id |-> id, req |-> req, db |-> db,
     status |-> answer.status, error |-> answer.error, body |-> answer.body]

(***************************************************************************)
(* Inputs of the task handlers.                                            *)
(***************************************************************************)
Reqs == {"r1", "r2"}

\* a body that does not decode
BadJSON == <<>>

CreateRequests ==
    { [Title |-> <<"a">>, Description |-> <<>>],
      [Title |-> <<>>, Description |-> <<>>],
      [Title |-> <<>>, Description |-> <<"d">>],
      [Title |-> StringOfLen(MaxTitleLen + 1), Description |-> <<>>] }

\* one field at a time, no field at all, and two that do not validate
UpdateRequests ==
    { [Title |-> Nil, Description |-> Nil, Status |-> Nil],
      [Title |-> Ptr(<<"b">>), Description |-> Nil, Status |-> Nil],
      [Title |-> Nil, Description |-> Ptr(<<"d">>), Status |-> Nil],
      [Title |-> Nil, Description |-> Nil, Status |-> Ptr("completed")],
      [Title |-> Ptr(<<>>), Description |-> Nil, Status |-> Nil],
      [Title |-> Nil, Description |-> Nil, Status |-> Ptr("done")] }

\* the JSON objects sent to POST /tasks: a status field may come with them
CreatePayloads ==
    { [Title |-> q.Title, Description |-> q.Description, Status |-> Nil] :
          q \in CreateRequests }
    \cup { [Title |-> <<"a">>, Description |-> <<>>, Status |-> Ptr("completed")] }

\* json Decode into CreateTaskRequest: a field the struct does not have is
\* dropped, an absent title or description is the empty string
DecodeCreate(payload) ==
    [Title |-> payload.Title, Description |-> payload.Description]

CreateBodies == {BadJSON} \cup {Ptr(q) : q \in CreatePayloads}

UpdateBodies == {BadJSON} \cup {Ptr(q) : q \in UpdateRequests}

\* the {id} of a path: an id the table may hold, a text that is no uuid (the
\* id the handler tests use), and the empty id
PathIds == {UUIDs[n] : n \in 1..Len(UUIDs)} \cup {<<"9", "9", "9">>, <<>>}

\* now: the value of time.Now() among the arguments of the UPDATE, evaluated
\* before the statement is sent
IdleFrame ==
    [pc |-> "idle", id |-> <<>>, updates |-> Nil, currentTask |-> Nil, now |-> 0]

(***************************************************************************)
(* The requests. A handler that issues one storage statement is one step;  *)
(* PUT /tasks/{id} issues two and is two steps. What the client sends (id, *)
(* body) is drawn where the handler reads it, and whether the storage      *)
(* statement fails (fault) where the statement is issued.                  *)
(***************************************************************************)
\* POST /tasks
Create(body) ==
    /\ mainPc = "serving"
    /\ IF body = BadJSON
       THEN /\ resp' = Answered("Create", <<>>, Nil, "none", InvalidJSON)
            /\ UNCHANGED <<tasks, nextId>>
       ELSE LET req  == DecodeCreate(Deref(body))
                errs == SvcCreateValidation(req)
                row  == RepoCreateRow(nextId + 1, SvcCreateTask(req), dbNow)
            IN IF errs # <<>>
               THEN /\ resp' = Answered("Create", <<>>, body, "none",
                                   HandlerCreateAnswer(ValidationFailure(errs), Nil))
                    /\ UNCHANGED <<tasks, nextId>>
               ELSE \E fault \in BOOLEAN :
                    IF fault
                    THEN /\ resp' = Answered("Create", <<>>, body, "fault",
                                        HandlerCreateAnswer(
                                            SvcCreateError(RepoCreateError(fault)), Nil))
                         /\ UNCHANGED <<tasks, nextId>>
                    ELSE /\ nextId < Len(UUIDs)
                         /\ tasks' = TableInsert(tasks, row)
                         /\ nextId' = nextId + 1
                         /\ resp' = Answered("Create", <<>>, body, "row",
                                        HandlerCreateAnswer(NoError, ToResponse(row)))
    /\ UNCHANGED <<dbNow, apiNow, call>>
    /\ UNCHANGED corsVars
    /\ UNCHANGED lifeVars

\* GET /tasks
GetAll ==
    /\ mainPc = "serving"
    /\ \E fault \in BOOLEAN :
       IF fault
       THEN resp' = Answered("GetAll", <<>>, Nil, "fault",
                       HandlerGetAllAnswer(SvcGetAllError(RepoGetAllError(fault)), Nil))
       ELSE \E order \in Orderings(tasks) :
            resp' = Answered("GetAll", <<>>, Nil, "rows",
                        HandlerGetAllAnswer(NoError,
                            SvcGetAllResponses(RepoGetAllTasks(tasks, order))))
    /\ UNCHANGED <<tasks, nextId, dbNow, apiNow, call>>
    /\ UNCHANGED corsVars
    /\ UNCHANGED lifeVars

\* GET /health
Health ==
    /\ mainPc = "serving"
    /\ \E fault \in BOOLEAN :
       resp' = Answered("Health", <<>>, Nil, IF fault THEN "fault" ELSE "pong",
                   healthCheckHandler(IF fault THEN DriverError ELSE NoError))
    /\ UNCHANGED <<tasks, nextId, dbNow, apiNow, call>>
    /\ UNCHANGED corsVars
    /\ UNCHANGED lifeVars

\* GET /tasks/{id}
GetByID(id) ==
    /\ mainPc = "serving"
    /\ IF id = <<>>
       THEN resp' = Answered("GetByID", id, Nil, "none", IdRequired)
       ELSE \E fault \in BOOLEAN :
            LET outcome == DbOutcome(tasks, id, fault)
                err     == SvcGetByIDError(RepoGetByIDError(outcome))
                task    == IF outcome = "row" THEN ToResponse(tasks[id]) ELSE Nil
            IN resp' = Answered("GetByID", id, Nil, outcome,
                                HandlerGetByIDAnswer(err, task))
    /\ UNCHANGED <<tasks, nextId, dbNow, apiNow, call>>
    /\ UNCHANGED corsVars
    /\ UNCHANGED lifeVars

\* PUT /tasks/{id} up to the SELECT of TaskRepository.Update and the merge
UpdateRead(r, id, bodies) ==
    /\ mainPc = "serving"
    /\ call[r].pc = "idle"
    /\ IF id = <<>>
       THEN /\ resp' = Answered("Update", id, Nil, "none", IdRequired)
            /\ UNCHANGED call
       ELSE \E body \in bodies :
            IF body = BadJSON
            THEN /\ resp' = Answered("Update", id, Nil, "none", InvalidJSON)
                 /\ UNCHANGED call
            ELSE LET req  == Deref(body)
                     errs == SvcUpdateValidation(req)
                 IN IF errs # <<>>
                    THEN /\ resp' = Answered("Update", id, body, "none",
                                        HandlerUpdateAnswer(ValidationFailure(errs), Nil))
                         /\ UNCHANGED call
                    ELSE \E fault \in BOOLEAN :
                         LET outcome == DbOutcome(tasks, id, fault)
                             err     == SvcUpdateError(RepoGetByIDError(outcome))
                         IN IF outcome # "row"
                            THEN /\ resp' = Answered("Update", id, body, outcome,
                                                HandlerUpdateAnswer(err, Nil))
                                 /\ UNCHANGED call
                            ELSE /\ call' = [call EXCEPT ![r] =
                                                [pc          |-> "write",
                                                 id          |-> id,
                                                 updates     |-> req,
                                                 currentTask |-> Merge(tasks[id], req),
                                                 now         |-> apiNow]]
                                 /\ UNCHANGED resp
    /\ UNCHANGED <<tasks, nextId, dbNow, apiNow>>
    /\ UNCHANGED corsVars
    /\ UNCHANGED lifeVars

\* PUT /tasks/{id} from the UPDATE of TaskRepository.Update on
UpdateWrite(r) ==
    /\ mainPc \in {"serving", "shutdown"}
    /\ call[r].pc = "write"
    /\ \E fault \in BOOLEAN :
       LET id      == call[r].id
           outcome == DbOutcome(tasks, id, fault)
           err     == SvcUpdateError(RepoUpdateWriteError(outcome))
           row     == UpdatedRow(tasks[id], call[r].currentTask, call[r].now)
       IN IF outcome = "row"
          THEN /\ tasks' = [tasks EXCEPT ![id] = row]
               /\ resp' = Answered("Update", id, Ptr(call[r].updates), outcome,
                              HandlerUpdateAnswer(NoError, ToResponse(row)))
          ELSE /\ resp' = Answered("Update", id, Ptr(call[r].updates), outcome,
                              HandlerUpdateAnswer(err, Nil))
               /\ UNCHANGED tasks
    /\ call' = [call EXCEPT ![r] = IdleFrame]
    /\ UNCHANGED <<nextId, dbNow, apiNow>>
    /\ UNCHANGED corsVars
    /\ UNCHANGED lifeVars

\* DELETE /tasks/{id}
Delete(id) ==
    /\ mainPc = "serving"
    /\ IF id = <<>>
       THEN /\ resp' = Answered("Delete", id, Nil, "none", IdRequired)
            /\ UNCHANGED tasks
       ELSE \E fault \in BOOLEAN :
            LET outcome == DbOutcome(tasks, id, fault)
                err     == SvcDeleteError(RepoDeleteError(outcome))
            IN /\ resp' = Answered("Delete", id, Nil, outcome, HandlerDeleteAnswer(err))
               /\ tasks' = IF outcome = "row" THEN TableDelete(tasks, id) ELSE tasks
    /\ UNCHANGED <<nextId, dbNow, apiNow, call>>
    /\ UNCHANGED corsVars
    /\ UNCHANGED lifeVars

\* formatValidationErrors applied to the validator.ValidationErrors in errs:
\* the response keeps the errors it was given and the message it returned
Format(errs) ==
    /\ resp' = Answered("formatValidationErrors", <<>>, Ptr(errs), "none",
                    [status |-> 0, error |-> formatValidationErrors(errs), body |-> <<>>])
    /\ UNCHANGED <<tasks, nextId, dbNow, apiNow, call>>
    /\ UNCHANGED corsVars
    /\ UNCHANGED lifeVars

(***************************************************************************)
(* main, from the shutdown signal on. A request in flight is a PUT between *)
(* its two statements.                                                     *)
(***************************************************************************)
\* the error srv.Shutdown returns when its context expires
DeadlineExceeded == ErrorsNew("context.DeadlineExceeded", "context deadline exceeded")

InFlight == {r \in Reqs : call[r].pc = "write"}

\* http.Server.Shutdown: nil once no connection is active, the error of its
\* context when the 30 seconds pass first
ShutdownResults(inFlight) ==
    IF inFlight = {} THEN {NoError} ELSE {DeadlineExceeded}

\* mutant: the error of Shutdown is logged and main goes on
AfterShutdown_GoesOn(err) == "closing"

\* main after srv.Shutdown(ctx): log.Fatal ends the process with os.Exit(1),
\* no deferred call runs
AfterShutdown(err) == IF err # NoError THEN "exited" ELSE "closing"

\* <-quit, then srv.Shutdown(ctx) is called: the listener is closed
Signal ==
    /\ mainPc = "serving"
    /\ mainPc' = "shutdown"
    /\ UNCHANGED dbOpen
    /\ UNCHANGED taskVars
    /\ UNCHANGED corsVars

\* srv.Shutdown(ctx) returns; when the process exits its requests go with it
ShutdownReturns ==
    /\ mainPc = "shutdown"
    /\ \E err \in ShutdownResults(InFlight) :
          /\ mainPc' = AfterShutdown(err)
          /\ call' = IF mainPc' = "exited" THEN [r \in Reqs |-> IdleFrame] ELSE call
    /\ UNCHANGED dbOpen
    /\ UNCHANGED <<tasks, nextId, dbNow, apiNow, resp>>
    /\ UNCHANGED corsVars

\* db.Close() after Shutdown, then main returns
CloseDB ==
    /\ mainPc = "closing"
    /\ dbOpen' = FALSE
    /\ mainPc' = "stopped"
    /\ UNCHANGED taskVars
    /\ UNCHANGED corsVars

\* the storage engine's clock advances
TickDB ==
    /\ dbNow < MaxTime
    /\ dbNow' = dbNow + 1
    /\ UNCHANGED <<tasks, nextId, apiNow, call, resp>>
    /\ UNCHANGED corsVars
    /\ UNCHANGED lifeVars

\* the API process's clock advances
TickAPI ==
    /\ apiNow < MaxTime
    /\ apiNow' = apiNow + 1
    /\ UNCHANGED <<tasks, nextId, dbNow, call, resp>>
    /\ UNCHANGED corsVars
    /\ UNCHANGED lifeVars

NoAnswer ==
    [op |-> "none", id |-> <<>>, req |-> Nil, db |-> "none",
     status |-> 0, error |-> <<>>, body |-> <<>>]

InitTasks ==
    /\ tasks = [i \in {} |-> Nil]
    /\ nextId = 0
    /\ dbNow = 0
    /\ apiNow = 0
    /\ call = [r \in Reqs |-> IdleFrame]
    /\ resp = NoAnswer
    /\ mainPc = "serving"
    /\ dbOpen = TRUE

\* config.NewConfig without environment
DefaultCORSConfig ==
    [AllowedOrigins   |-> <<Wildcard>>,
     AllowedMethods   |-> <<"GET", "POST", "PUT", "DELETE", "OPTIONS">>,
     AllowedHeaders   |-> <<"Accept", "Authorization", "Content-Type", "X-Request-ID">>,
     ExposedHeaders   |-> <<"X-Request-ID">>,
     AllowCredentials |-> FALSE,
     MaxAge           |-> 300]

Init ==
    /\ cfg = DefaultCORSConfig
    /\ corsPc = "served"
    /\ corsReq = [method |-> "GET", origin |-> <<>>]
    /\ corsResp = CORSResponse(cfg, corsReq.method, corsReq.origin)
    /\ InitTasks

Next ==
    \/ Health
    \/ \E body \in CreateBodies : Create(body)
    \/ GetAll
    \/ \E id \in PathIds : GetByID(id)
    \/ \E r \in Reqs, id \in PathIds : UpdateRead(r, id, UpdateBodies)
    \/ \E r \in Reqs : UpdateWrite(r)
    \/ \E id \in PathIds : Delete(id)

Spec == Init /\ [][Next]_vars

\* the task handlers with both clocks running, on one valid body per handler

ClockCreateBodies ==
    {Ptr([Title |-> <<"a">>, Description |-> <<>>, Status |-> st]) :
         st \in {Nil, Ptr("completed")}}

ClockUpdateBodies ==
    {Ptr([Title |-> Ptr(<<"b">>), Description |-> Nil, Status |-> Nil])}

NextClock ==
    \/ TickDB
    \/ TickAPI
    \/ \E body \in ClockCreateBodies : Create(body)
    \/ GetByID(UUIDs[1])
    \/ \E r \in Reqs : UpdateRead(r, UUIDs[1], ClockUpdateBodies)
    \/ \E r \in Reqs : UpdateWrite(r)
    \/ Delete(UUIDs[1])

SpecClock == Init /\ [][NextClock]_vars

\* the task handlers on requests at and beyond every limit of the validate
\* tags, several limits at once included
ValidationReq == "r1"

ValidationCreateBodies ==
    {BadJSON} \cup
    { Ptr([Title |-> t, Description |-> d, Status |-> Nil]) :
          t \in {<<>>, <<"a">>, StringOfLen(MaxTitleLen), StringOfLen(MaxTitleLen + 1)},
          d \in {<<>>, StringOfLen(MaxDescriptionLen + 1)} }

ValidationUpdateBodies ==
    {BadJSON} \cup
    { Ptr([Title |-> t, Description |-> d, Status |-> st]) :
          t \in {Nil, Ptr(<<>>), Ptr(<<"b">>), Ptr(StringOfLen(MaxTitleLen + 1))},
          d \in {Nil, Ptr(StringOfLen(MaxDescriptionLen)),
                  Ptr(StringOfLen(MaxDescriptionLen + 1))},
          st \in {Nil, Ptr("in_progress"), Ptr("done"), Ptr("")} }

NextValidation ==
    \/ \E body \in ValidationCreateBodies : Create(body)
    \/ \E id \in PathIds : UpdateRead(ValidationReq, id, ValidationUpdateBodies)
    \/ UpdateWrite(ValidationReq)

SpecValidation == Init /\ [][NextValidation]_vars

\* the task handlers on one task whose status is moved: a PUT carrying each
\* value of the enum and one outside it, and a PUT that renames the task as
\* it completes it
StatusCreateBodies ==
    {Ptr([Title |-> <<"a">>, Description |-> <<>>, Status |-> Nil])}

StatusUpdateBodies ==
    { Ptr([Title |-> Nil, Description |-> Nil, Status |-> Ptr(st)]) :
          st \in Statuses \cup {"done"} }
    \cup {Ptr([Title |-> Ptr(<<"b">>), Description |-> Nil,
               Status |-> Ptr("completed")])}

NextStatus ==
    \/ \E body \in StatusCreateBodies : Create(body)
    \/ \E r \in Reqs : UpdateRead(r, UUIDs[1], StatusUpdateBodies)
    \/ \E r \in Reqs : UpdateWrite(r)
    \/ Delete(UUIDs[1])

SpecStatus == Init /\ [][NextStatus]_vars

\* formatValidationErrors on its own, on lists of one or two FieldErrors of
\* the tags the request types have and of one they have not, and the two
\* handlers that call it on bodies that break the constraints of one, two
\* or three fields
FormatTags == {"required", "min", "max", "oneof", "email"}

FormatFieldErrors ==
    [Field : {"Title", "Description", "Status"}, Tag : FormatTags, Param : {"", "1"}]

FormatErrorLists ==
    {<<e>> : e \in FormatFieldErrors}
    \cup {<<e, f>> : e \in FormatFieldErrors, f \in FormatFieldErrors}

FormatCreateBodies ==
    { Ptr([Title |-> t, Description |-> StringOfLen(MaxDescriptionLen + 1),
           Status |-> Nil]) :
          t \in {<<>>, StringOfLen(MaxTitleLen + 1)} }

FormatUpdateBodies ==
    { Ptr([Title |-> t, Description |-> d, Status |-> st]) :
          t \in {Ptr(<<>>), Ptr(StringOfLen(MaxTitleLen + 1))},
          d \in {Nil, Ptr(StringOfLen(MaxDescriptionLen + 1))},
          st \in {Nil, Ptr("done")} }
    \cup {Ptr([Title |-> Nil, Description |-> Ptr(StringOfLen(MaxDescriptionLen + 1)),
               Status |-> Ptr("done")])}

NextFormat ==
    \/ \E errs \in FormatErrorLists : Format(errs)
    \/ \E body \in FormatCreateBodies : Create(body)
    \/ UpdateRead(ValidationReq, UUIDs[1], FormatUpdateBodies)

SpecFormat == Init /\ [][NextFormat]_vars

\* the task handlers on a table that held a row before the process started
\* (the table outlives the process), so that two tasks are stored at once:
\* the API clock running, one PUT at a time to either id
StoredBefore ==
    [id          |-> <<"uuid", "0">>,
     title       |-> <<"a">>,
     description |-> <<>>,
     status      |-> "pending",
     created_at  |-> 0,
     updated_at  |-> 0]

InitStored ==
    /\ cfg = DefaultCORSConfig
    /\ corsPc = "served"
    /\ corsReq = [method |-> "GET", origin |-> <<>>]
    /\ corsResp = CORSResponse(cfg, corsReq.method, corsReq.origin)
    /\ tasks = TableInsert([i \in {} |-> Nil], StoredBefore)
    /\ nextId = 0
    /\ dbNow = 0
    /\ apiNow = 0
    /\ call = [r \in Reqs |-> IdleFrame]
    /\ resp = NoAnswer
    /\ mainPc = "serving"
    /\ dbOpen = TRUE

StoredIds == {StoredBefore.id, UUIDs[1]}

StoredCreateBodies ==
    {Ptr([Title |-> <<"c">>, Description |-> <<>>, Status |-> Nil])}

StoredUpdateBodies ==
    {Ptr([Title |-> Ptr(<<"b">>), Description |-> Nil, Status |-> Nil]),
     Ptr([Title |-> Nil, Description |-> Nil, Status |-> Ptr("completed")])}

NextStored ==
    \/ TickAPI
    \/ \E body \in StoredCreateBodies : Create(body)
    \/ \E id \in StoredIds : UpdateRead(ValidationReq, id, StoredUpdateBodies)
    \/ UpdateWrite(ValidationReq)

SpecStored == InitStored /\ [][NextStored]_vars

\* the five task operations on one task, each storage statement failing or
\* not (a context that is cancelled or past its deadline makes the pending
\* statement return its error); a statement that was issued returns
CancelCreateBodies ==
    {Ptr([Title |-> <<"a">>, Description |-> <<>>, Status |-> Nil])}

CancelUpdateBodies ==
    {Ptr([Title |-> Ptr(<<"b">>), Description |-> Nil, Status |-> Nil])}

NextCancel ==
    \/ \E body \in CancelCreateBodies : Create(body)
    \/ GetAll
    \/ \E id \in PathIds : GetByID(id)
    \/ \E r \in Reqs : UpdateRead(r, UUIDs[1], CancelUpdateBodies)
    \/ \E r \in Reqs : UpdateWrite(r)
    \/ \E id \in PathIds : Delete(id)

SpecCancel == Init /\ [][NextCancel]_vars

\* the process from start to end: requests served, the shutdown signal, the
\* grace period of srv.Shutdown and the closing of the pool
ShutdownCreateBodies ==
    {Ptr([Title |-> <<"a">>, Description |-> <<>>, Status |-> Nil])}

ShutdownUpdateBodies ==
    {Ptr([Title |-> Ptr(<<"b">>), Description |-> Nil, Status |-> Nil])}

NextShutdown ==
    \/ \E body \in ShutdownCreateBodies : Create(body)
    \/ GetByID(UUIDs[1])
    \/ \E r \in Reqs : UpdateRead(r, UUIDs[1], ShutdownUpdateBodies)
    \/ \E r \in Reqs : UpdateWrite(r)
    \/ Delete(UUIDs[1])
    \/ Signal
    \/ ShutdownReturns
    \/ CloseDB

SpecShutdown == Init /\ [][NextShutdown]_vars

\* next.ServeHTTP(w, r) of the CORS middleware: the router runs the handler
\* of the request's method on /tasks, once
ServeNext(bodies) ==
    /\ corsPc = "served"
    /\ corsResp.nextCalls = 1
    /\ resp = NoAnswer
    /\ \/ corsReq.method = "POST" /\ \E body \in bodies : Create(body)
       \/ corsReq.method = "GET" /\ GetAll

\* one request through the CORS middleware and the handler behind it, under
\* configurations that grant its origin, answer it with the wildcard or
\* deny it
ChainConfigs ==
    [AllowedOrigins   : {<< <<"a">> >>, << <<"*">> >>, << <<"*", ".", "a">> >>},
     AllowedMethods   : {<<"GET", "POST">>},
     AllowedHeaders   : {<<>>, <<"Content-Type">>},
     ExposedHeaders   : {<<>>},
     AllowCredentials : BOOLEAN,
     MaxAge           : {0, 300}]

ChainRequests ==
    [method : {"OPTIONS", "GET", "POST"},
     origin : {<<>>, <<"a">>, <<".">>, <<"a", ".", "a">>}]

ChainCreateBodies ==
    {BadJSON, Ptr([Title |-> <<"a">>, Description |-> <<>>, Status |-> Nil])}

InitChain ==
    /\ cfg \in ChainConfigs
    /\ corsReq \in ChainRequests
    /\ corsPc = "request"
    /\ corsResp = NoResponse
    /\ InitTasks

NextChain ==
    \/ CORS
    \/ ServeNext(ChainCreateBodies)

SpecChain == InitChain /\ [][NextChain]_vars

InitCORS ==
    /\ cfg \in CORSConfigs
    /\ corsReq \in [method : Methods, origin : Origins]
    /\ corsPc = "request"
    /\ corsResp = NoResponse
    /\ InitTasks

NextCORS == CORS

SpecCORS == InitCORS /\ [][NextCORS]_vars

(***************************************************************************)
(* Properties of the CORS middleware, over SpecCORS.                       *)
(***************************************************************************)
ACAO == "Access-Control-Allow-Origin"

Served == corsPc = "served"

\* the allow-list holds the origin itself
ExactEntry(origin, list) == \E i \in 1..Len(list) : list[i] = origin

\* the allow-list holds a "*.suffix" entry and the origin ends with ".suffix"
SuffixEntry(origin, list) ==
    \E i \in 1..Len(list) :
        /\ Len(list[i]) >= 2
        /\ list[i][1] = "*"
        /\ list[i][2] = "."
        /\ HasSuffix(origin, Tail(list[i]))

\* the allow-list holds the literal "*"
StarEntry(list) == \E i \in 1..Len(list) : list[i] = <<"*">>

\* C3: a request whose Origin equals no allow-list entry and ends with the
\* suffix of no "*.suffix" entry, under an allow-list without the literal
\* "*", is served without an Access-Control-Allow-Origin header.
C3_NoMatchNoHeader ==
    (/\ Served
     /\ ~ExactEntry(corsReq.origin, cfg.AllowedOrigins)
     /\ ~SuffixEntry(corsReq.origin, cfg.AllowedOrigins)
     /\ ~StarEntry(cfg.AllowedOrigins))
        => ACAO \notin DOMAIN corsResp.headers

\* a non-empty origin that only misses a "*.suffix" entry by its dot
C3_Witness ==
    /\ Served
    /\ corsReq.origin = <<"a">>
    /\ cfg.AllowedOrigins = << <<"*", ".", "a">> >>
    /\ ACAO \notin DOMAIN corsResp.headers

\* C4: a request with an empty Origin header is served without an
\* Access-Control-Allow-Origin header, whatever the allow-list holds.
C4_EmptyOriginNoHeader ==
    (Served /\ corsReq.origin = <<>>) => ACAO \notin DOMAIN corsResp.headers

\* C5: a non-empty origin ending with the ".suffix" of a "*.suffix" entry is
\* allowed and Access-Control-Allow-Origin is the origin, verbatim.
C5_SuffixMatchEchoesOrigin ==
    (/\ Served
     /\ corsReq.origin # <<>>
     /\ SuffixEntry(corsReq.origin, cfg.AllowedOrigins))
        => /\ ACAO \in DOMAIN corsResp.headers
           /\ corsResp.headers[ACAO] = corsReq.origin

\* the origin a.a under the single entry *.a
C5_Witness ==
    /\ Served
    /\ corsReq.origin = <<"a", ".", "a">>
    /\ cfg.AllowedOrigins = << <<"*", ".", "a">> >>
    /\ corsResp.headers[ACAO] = <<"a", ".", "a">>

C7_CredentialsNeverWithStar ==
    (/\ Served
     /\ "Access-Control-Allow-Credentials" \in DOMAIN corsResp.headers
     /\ ACAO \in DOMAIN corsResp.headers)
        => /\ corsResp.headers[ACAO] # Wildcard
           /\ corsResp.headers[ACAO] = corsReq.origin

\* C8: an OPTIONS request is answered by the middleware itself with 204 and
\* no body, next is not called, and each of the methods, headers, exposed
\* headers, credentials and max-age headers is on the response exactly when
\* its configuration value is non-empty, true or positive.
C8_PreflightShortCircuits ==
    (Served /\ corsReq.method = "OPTIONS")
        => /\ corsResp.status = StatusNoContent
           /\ ~corsResp.body
           /\ corsResp.nextCalls = 0
           /\ "Access-Control-Allow-Methods" \in DOMAIN corsResp.headers
                  <=> cfg.AllowedMethods # <<>>
           /\ "Access-Control-Allow-Headers" \in DOMAIN corsResp.headers
                  <=> cfg.AllowedHeaders # <<>>
           /\ "Access-Control-Expose-Headers" \in DOMAIN corsResp.headers
                  <=> cfg.ExposedHeaders # <<>>
           /\ "Access-Control-Allow-Credentials" \in DOMAIN corsResp.headers
                  <=> cfg.AllowCredentials
           /\ "Access-Control-Max-Age" \in DOMAIN corsResp.headers
                  <=> cfg.MaxAge > 0

\* a preflight from a denied origin, with methods and max-age configured and
\* the other three headers not
C8_Witness ==
    /\ Served
    /\ corsReq.method = "OPTIONS"
    /\ corsReq.origin = <<"a">>
    /\ cfg.AllowedOrigins = << <<".", "a">> >>
    /\ cfg.AllowedMethods # <<>>
    /\ cfg.AllowedHeaders = <<>>
    /\ cfg.ExposedHeaders = <<>>
    /\ ~cfg.AllowCredentials
    /\ cfg.MaxAge > 0
    /\ corsResp.status = StatusNoContent
    /\ corsResp.nextCalls = 0
    /\ DOMAIN corsResp.headers =
           {"Access-Control-Allow-Methods", "Access-Control-Max-Age"}

(***************************************************************************)
(* Properties of the task handlers, over Spec.                             *)
(***************************************************************************)
\* the step in which PUT request r issues its SELECT and finds the row
UpdateHasRead(r) == call[r].pc = "idle" /\ call'[r].pc = "write"

\* the step in which PUT request r issues its UPDATE and is answered 200
UpdateHasWritten(r) ==
    /\ call[r].pc = "write"
    /\ call'[r].pc = "idle"
    /\ resp'.op = "Update"
    /\ resp'.status = StatusOK

\* field by field: the value given when the payload has the field, the value
\* of `kept` when it has not
FieldsAre(t, updates, kept) ==
    /\ t.title = IF updates.Title # Nil THEN Deref(updates.Title) ELSE kept.title
    /\ t.description = IF updates.Description # Nil
                       THEN Deref(updates.Description) ELSE kept.description
    /\ t.status = IF updates.Status # Nil THEN Deref(updates.Status) ELSE kept.status

\* C1 as stated: at the write of every Update that succeeds, each field the
\* payload leaves absent has in the stored row the value it had right before
\* that write, and each field present is stored as given.
C1_AbsentFieldsKeepValueBeforeWrite ==
    [][\A r \in Reqs :
          UpdateHasWritten(r)
              => FieldsAre(tasks'[call[r].id], call[r].updates, tasks[call[r].id])]_vars

\* C1, amended: each field the payload leaves absent has, right after the
\* write, the value the row had when this Update read it (the SELECT that
\* opens TaskRepository.Update), whatever was written to the row between
\* that read and the write; each field present is stored as given.
C1_AbsentFieldsKeepValueRead ==
    [][\A r \in Reqs :
          /\ UpdateHasRead(r)
                => /\ call'[r].id \in DOMAIN tasks
                   /\ FieldsAre(call'[r].currentTask, call'[r].updates,
                                tasks[call'[r].id])
          /\ (call[r].pc = "write" /\ call'[r].pc = "write") => call'[r] = call[r]
          /\ UpdateHasWritten(r)
                => FieldsAre(tasks'[call[r].id], call[r].updates,
                             call[r].currentTask)]_vars

\* an Update that left the title absent has succeeded and the row holds the
\* title it was created with, while another Update of the same id is between
\* its read and its write
C1_Witness ==
    /\ resp.op = "Update"
    /\ resp.status = StatusOK
    /\ Deref(resp.req).Title = Nil
    /\ Deref(resp.req).Status = Ptr("completed")
    /\ resp.id \in DOMAIN tasks
    /\ tasks[resp.id].title = <<"a">>
    /\ tasks[resp.id].status = "completed"
    /\ \E r \in Reqs : call[r].pc = "write" /\ call[r].id = resp.id

\* C2: a Create whose title is empty (an absent title decodes to the empty
\* string) is answered 400 with a validation error, issues no storage
\* statement and leaves the stored tasks as they were.
C2_EmptyTitleIsRejected ==
    [][(/\ resp'.op = "Create"
        /\ resp'.req # Nil
        /\ Deref(resp'.req).Title = <<>>)
          => /\ resp'.status = StatusBadRequest
             /\ SubSeq(resp'.error, 1, 1) = SvcErrValidation.text
             /\ resp'.db = "none"
             /\ tasks' = tasks
             /\ nextId' = nextId]_vars

\* a Create with an empty title and a description has been answered 400
C2_Witness ==
    /\ resp.op = "Create"
    /\ resp.req = Ptr([Title |-> <<>>, Description |-> <<"d">>, Status |-> Nil])
    /\ resp.status = StatusBadRequest
    /\ resp.error = <<"validation error", ": ", "Title", " is required">>
    /\ DOMAIN tasks = {}

\* C9: a GetByID or Delete whose id has no stored record, whatever the text
\* of the path segment, is answered 404 "Task not found"; 500 is answered
\* only when the storage statement failed otherwise.
C9_MissingIdIsNotFound ==
    /\ (/\ resp.op \in {"GetByID", "Delete"}
        /\ resp.db \in {"norow", "invalid_uuid"})
           => /\ resp.status = StatusNotFound
              /\ resp.error = <<"Task not found">>
    /\ (/\ resp.op \in {"GetByID", "Delete"}
        /\ resp.status = StatusInternalServerError)
           => resp.db = "fault"

\* C10: an Update that finds no row for its id, at its read or at its write,
\* is answered 404 "Task not found", never 500.
C10_UpdateNoRowIsNotFound ==
    (resp.op = "Update" /\ resp.db = "norow")
        => /\ resp.status = StatusNotFound
           /\ resp.error = <<"Task not found">>

(***************************************************************************)
(* Properties of the response bodies, over Spec.                           *)
(***************************************************************************)
TaskOps == {"Create", "GetAll", "GetByID", "Update", "Delete"}

Range(f) == {f[i] : i \in DOMAIN f}

\* the messages the handlers write as literals
FixedMessages ==
    { <<"Task ID is required">>, <<"Invalid JSON payload">>, <<"Task not found">>,
      <<"Failed to create task">>, <<"Failed to retrieve tasks">>,
      <<"Failed to retrieve task">>, <<"Failed to update task">>,
      <<"Failed to delete task">> }

\* "<Field> <reason>" for each constraint of the two request types
RenderedMessages ==
    { <<"Title", " is required">>,
      <<"Title", " must be at least ", "1", " characters">>,
      <<"Title", " must be at most ", "255", " characters">>,
      <<"Description", " must be at most ", "1000", " characters">>,
      <<"Status", " must be one of: ", "pending in_progress completed">> }

\* the texts of the errors below the handlers: the driver's and the storage
\* engine's messages, the sentinels' texts and the prefixes of the wrapping
StorageTexts ==
    { "driver: bad connection", "pq: invalid input syntax for type uuid",
      "sql: no rows in result set", "task not found",
      "failed to create task", "failed to get task", "failed to get tasks",
      "failed to update task", "failed to delete task" }

FailedTaskResponse == resp.op \in TaskOps /\ resp.status >= StatusBadRequest

\* no text of StorageTexts is in the response, whichever handler wrote it
NoStorageText ==
    /\ Range(resp.error) \cap StorageTexts = {}
    /\ resp.op = "Health" =>
          IF resp.body[1].json = "string"
          THEN Range(resp.body[1].value) \cap StorageTexts = {}
          ELSE LET info == resp.body[1].value.Services.database
               IN /\ Range(info.Message) \cap StorageTexts = {}
                  /\ \A k \in DOMAIN info.Details :
                        Range(info.Details[k]) \cap StorageTexts = {}

\* C11 as stated: the body of a failed task operation is an object with the
\* single field error, holding a fixed message or the rendered validation
\* message, and no response of any endpoint, /health included, holds text
\* of a storage-layer error.
C11_ErrorIsFixedOrRendered ==
    /\ FailedTaskResponse
          => /\ resp.body = <<>>
             /\ resp.error \in FixedMessages \cup RenderedMessages
    /\ NoStorageText

\* C11, amended: the error field holds a fixed message or the text of the
\* validation error, which is "validation error: " followed by the rendered
\* message; no response of any endpoint holds text of a storage-layer error.
C11_ErrorIsFixedOrValidationText ==
    /\ FailedTaskResponse
          => /\ resp.body = <<>>
             /\ resp.error \in FixedMessages
                    \cup {<<"validation error", ": ">> \o m : m \in RenderedMessages}
    /\ NoStorageText

\* an Update whose UPDATE statement failed in the driver is answered 500
\* with the generic message
C11_Witness ==
    /\ resp.op = "Update"
    /\ resp.db = "fault"
    /\ resp.req # Nil
    /\ \E r \in Reqs : call[r].pc = "write"
    /\ resp.status = StatusInternalServerError
    /\ resp.error = <<"Failed to update task">>

(***************************************************************************)
(* Properties of validation, over SpecValidation.                          *)
(***************************************************************************)
\* the first violated constraint of a body sent to POST /tasks, rendered;
\* <<>> when it violates none
ExpectedCreateMessage(q) ==
    IF q.Title = <<>> THEN <<"Title", " is required">>
    ELSE IF Len(q.Title) > 255
         THEN <<"Title", " must be at most ", "255", " characters">>
    ELSE IF Len(q.Description) > 1000
         THEN <<"Description", " must be at most ", "1000", " characters">>
    ELSE <<>>

\* the same for a body sent to PUT /tasks/{id}
ExpectedUpdateMessage(q) ==
    IF q.Title # Nil /\ Len(q.Title[1]) < 1
    THEN <<"Title", " must be at least ", "1", " characters">>
    ELSE IF q.Title # Nil /\ Len(q.Title[1]) > 255
         THEN <<"Title", " must be at most ", "255", " characters">>
    ELSE IF q.Description # Nil /\ Len(q.Description[1]) > 1000
         THEN <<"Description", " must be at most ", "1000", " characters">>
    ELSE IF q.Status # Nil /\ q.Status[1] \notin {"pending", "in_progress", "completed"}
         THEN <<"Status", " must be one of: ", "pending in_progress completed">>
    ELSE <<>>

ExpectedMessage ==
    IF resp.op = "Create" /\ resp.req # Nil THEN ExpectedCreateMessage(resp.req[1])
    ELSE IF resp.op = "Update" /\ resp.req # Nil THEN ExpectedUpdateMessage(resp.req[1])
    ELSE <<>>

\* C12 as stated: a Create or Update that fails validation is answered 400
\* with an error that is exactly the first violated constraint rendered as
\* "<Field> <reason>".
C12_MessageIsFirstViolation ==
    ExpectedMessage # <<>>
        => /\ resp.status = StatusBadRequest
           /\ resp.body = <<>>
           /\ resp.error = ExpectedMessage

\* C12, amended: the error is "validation error: " followed by the first
\* violated constraint rendered as "<Field> <reason>", and nothing else.
C12_MessageIsPrefixedFirstViolation ==
    ExpectedMessage # <<>>
        => /\ resp.status = StatusBadRequest
           /\ resp.body = <<>>
           /\ resp.error = <<"validation error", ": ">> \o ExpectedMessage

\* a Create violating the first and the last constraint of its type is
\* answered with the first
C12_Witness ==
    /\ resp.op = "Create"
    /\ resp.req # Nil
    /\ resp.req[1].Title = <<>>
    /\ Len(resp.req[1].Description) > 1000
    /\ resp.status = StatusBadRequest
    /\ resp.error = <<"validation error", ": ", "Title", " is required">>

(***************************************************************************)
(* Properties of the stored tasks, over Spec.                              *)
(***************************************************************************)
\* C13: in every reachable state of the table, every stored task has a
\* non-empty title and a status among pending, in_progress, completed.
C13_StoredTasksAreValid ==
    \A id \in DOMAIN tasks :
        /\ tasks[id].title # <<>>
        /\ tasks[id].status \in {"pending", "in_progress", "completed"}

\* an Update with a status outside the three has been refused while the row
\* holds what earlier Updates wrote
C13_Witness ==
    /\ resp.op = "Update"
    /\ resp.req # Nil
    /\ resp.req[1].Status = Ptr("done")
    /\ resp.status = StatusBadRequest
    /\ resp.id \in DOMAIN tasks
    /\ tasks[resp.id].title = <<"b">>
    /\ tasks[resp.id].status = "completed"

(***************************************************************************)
(* Properties of the timestamps, over SpecClock: the storage engine and    *)
(* the API process each read a clock of their own.                         *)
(***************************************************************************)
\* C14: in every reachable state of the table, every stored task has
\* created_at <= updated_at, created_at coming from the storage engine's
\* clock at the INSERT and updated_at from the API process's clock at each
\* Update.
C14_CreatedNotAfterUpdated ==
    \A id \in DOMAIN tasks : tasks[id].created_at <= tasks[id].updated_at

\* C15: a Create that succeeds answers 201 with a task whose status is
\* pending whatever status the body carried, whose id is the one the storage
\* engine generated for the row it inserted, and whose created_at equals its
\* updated_at.
C15_CreatedTaskIsPending ==
    [][(resp'.op = "Create" /\ resp'.db = "row")
          => /\ resp'.status = StatusCreated
             /\ resp'.body[1].status = "pending"
             /\ resp'.body[1].created_at = resp'.body[1].updated_at
             /\ resp'.body[1].id \in Range(UUIDs)
             /\ tasks' # tasks
                   => /\ resp'.body[1].id \notin DOMAIN tasks
                      /\ DOMAIN tasks' = DOMAIN tasks \cup {resp'.body[1].id}
                      /\ tasks'[resp'.body[1].id].status = "pending"
                      /\ tasks'[resp'.body[1].id].title = resp'.req[1].Title
                      /\ resp'.body[1].created_at = dbNow]_vars

\* a Create whose body carried status completed has been answered 201 with
\* status pending, at a moment when the two clocks differ
C15_Witness ==
    /\ resp.op = "Create"
    /\ resp.req # Nil
    /\ resp.req[1].Status = Ptr("completed")
    /\ resp.status = StatusCreated
    /\ resp.body[1].status = "pending"
    /\ resp.body[1].created_at = 1
    /\ resp.body[1].updated_at = 1
    /\ apiNow = 0
    /\ resp.body[1].id \in DOMAIN tasks

\* C16: an Update that succeeds answers 200 with an updated_at strictly
\* greater than the one stored right before its write, so the stored
\* updated_at of a task never decreases from one successful Update to the
\* next, in any interleaving.
C16_UpdatedAtStrictlyGrows ==
    [][\A r \in Reqs :
          UpdateHasWritten(r)
              => /\ resp'.body[1].updated_at = tasks'[call[r].id].updated_at
                 /\ tasks'[call[r].id].updated_at > tasks[call[r].id].updated_at]_vars

(***************************************************************************)
(* Properties of the status field, over SpecStatus.                        *)
(***************************************************************************)
\* whether the body of the answered PUT carries a status of the enum
CarriesStatus(req) ==
    /\ req # Nil
    /\ req[1].Status # Nil
    /\ Deref(req[1].Status) \in Statuses

\* C17: an Update carrying a status s' of {pending, in_progress, completed}
\* is never rejected, whatever status s the stored task has (s' = s and
\* backward moves included): it is answered something else than 200 only
\* when a storage statement failed or found no row, and when its UPDATE is
\* done the stored task and the answered task both have status s'.
C17_AnyTransitionSucceeds ==
    [][/\ (resp'.op = "Update" /\ CarriesStatus(resp'.req)
             /\ resp'.status # StatusOK)
           => resp'.db \in {"fault", "norow"}
       /\ \A r \in Reqs :
             (UpdateHasWritten(r) /\ call[r].updates.Status # Nil)
                 => /\ tasks'[call[r].id].status = Deref(call[r].updates.Status)
                    /\ resp'.body[1].status = Deref(call[r].updates.Status)]_vars

\* a task that a PUT had renamed and completed is pending again: the PUT
\* carrying only status pending has been answered 200
C17_Witness ==
    /\ resp.op = "Update"
    /\ resp.status = StatusOK
    /\ resp.req = Ptr([Title |-> Nil, Description |-> Nil, Status |-> Ptr("pending")])
    /\ resp.body[1].status = "pending"
    /\ resp.body[1].title = <<"b">>
    /\ resp.id \in DOMAIN tasks
    /\ tasks[resp.id].status = "pending"
    /\ tasks[resp.id].title = <<"b">>

(***************************************************************************)
(* Properties of the reads, over Spec.                                     *)
(***************************************************************************)
\* C18: GetAll on a store with no tasks, its SELECT having worked, is
\* answered 200 with an empty sequence that is not the nil slice (so it is
\* serialized as [] and not as null); whatever the store holds, the answer
\* has one element per stored task.
C18_EmptyStoreIsEmptyList ==
    (resp.op = "GetAll" /\ resp.db = "rows")
        => /\ resp.status = StatusOK
           /\ ~resp.body[1].isNil
           /\ Len(resp.body[1].elems) = Cardinality(DOMAIN tasks)
           /\ DOMAIN tasks = {} => resp.body = <<[isNil |-> FALSE, elems |-> <<>>]>>

\* GetAll has been answered on a store that a Delete emptied
C18_Witness ==
    /\ resp.op = "GetAll"
    /\ resp.db = "rows"
    /\ nextId = 1
    /\ DOMAIN tasks = {}
    /\ resp.status = StatusOK
    /\ resp.body[1].elems = <<>>

\* C19: GetByID and GetAll leave the store as it was, a GetByID answered 200
\* carries the id, title, description, status, created_at and updated_at of
\* the stored row, and a GetByID answered 200 right after another for the
\* same id has the same task in its body.
C19_ReadsDoNotWrite ==
    [][/\ resp'.op \in {"GetByID", "GetAll"}
           => /\ tasks' = tasks
              /\ nextId' = nextId
       /\ (resp'.op = "GetByID" /\ resp'.status = StatusOK)
           => /\ resp'.id \in DOMAIN tasks
              /\ resp'.body[1].id = tasks[resp'.id].id
              /\ resp'.body[1].title = tasks[resp'.id].title
              /\ resp'.body[1].description = tasks[resp'.id].description
              /\ resp'.body[1].status = tasks[resp'.id].status
              /\ resp'.body[1].created_at = tasks[resp'.id].created_at
              /\ resp'.body[1].updated_at = tasks[resp'.id].updated_at
       /\ (resp.op = "GetByID" /\ resp.status = StatusOK
             /\ resp'.op = "GetByID" /\ resp'.status = StatusOK
             /\ resp'.id = resp.id)
           => resp'.body = resp.body]_vars

\* GetByID has been answered 200 with a task that two PUTs had changed
C19_Witness ==
    /\ resp.op = "GetByID"
    /\ resp.status = StatusOK
    /\ resp.id \in DOMAIN tasks
    /\ resp.body[1].description = <<"d">>
    /\ resp.body[1].status = "completed"
    /\ tasks[resp.id].description = <<"d">>
    /\ tasks[resp.id].status = "completed"

(***************************************************************************)
(* Properties of GET /health, over Spec.                                   *)
(***************************************************************************)
\* C20: when the ping of the storage engine fails, GET /health answers 503
\* and its body is the aggregate health payload, an object with status
\* "unhealthy" and, under services.database, the status, message and
\* details of the storage engine; when the ping passes it answers 200 with
\* the payload whose status is "healthy".
C20_HealthAnswersPayload ==
    resp.op = "Health"
        => /\ resp.body[1].json = "object"
           /\ IF resp.db = "fault"
              THEN /\ resp.status = StatusServiceUnavailable
                   /\ resp.body[1].value.Status = "unhealthy"
                   /\ resp.body[1].value.Services.database.Status = "unhealthy"
                   /\ DOMAIN resp.body[1].value.Services.database
                          = {"Status", "Message", "Details"}
              ELSE /\ resp.status = StatusOK
                   /\ resp.body[1].value.Status = "healthy"
                   /\ resp.body[1].value.Services.database.Status = "healthy"

(***************************************************************************)
(* Properties of overlapping requests, over Spec.                          *)
(***************************************************************************)
\* the step in which PUT request r issues its UPDATE and the row is there
UpdateWritesRow(r) ==
    /\ call[r].pc = "write"
    /\ call'[r].pc = "idle"
    /\ resp'.op = "Update"
    /\ resp'.db = "row"

\* C21: when two Updates of one id overlap, neither is answered an error
\* while the row is there, and the row stored after each write is the
\* complete row of the request that wrote: the fields of its payload, and
\* for a field its payload leaves absent the value it had read, whatever
\* another Update wrote in between, so the earlier writer's change of that
\* field is lost.
C21_LastWriteWins ==
    [][\A r \in Reqs :
          /\ UpdateHasRead(r)
                => FieldsAre(call'[r].currentTask, call'[r].updates, tasks[call'[r].id])
          /\ UpdateWritesRow(r)
                => /\ resp'.status = StatusOK
                   /\ DOMAIN tasks' = DOMAIN tasks
                   /\ tasks'[call[r].id].title = call[r].currentTask.title
                   /\ tasks'[call[r].id].description = call[r].currentTask.description
                   /\ tasks'[call[r].id].status = call[r].currentTask.status
                   /\ tasks'[call[r].id].updated_at = call[r].now
                   /\ resp'.body[1].title = call[r].currentTask.title
                   /\ resp'.body[1].description = call[r].currentTask.description
                   /\ resp'.body[1].status = call[r].currentTask.status]_vars

\* two Updates overlap: r1, carrying a title, has written and been answered
\* 200 while r2, carrying a description, still holds the title it had read
\* before that write and is about to write it back
C21_Witness ==
    /\ resp.op = "Update"
    /\ resp.status = StatusOK
    /\ resp.req = Ptr([Title |-> Ptr(<<"b">>), Description |-> Nil, Status |-> Nil])
    /\ resp.id \in DOMAIN tasks
    /\ tasks[resp.id].title = <<"b">>
    /\ call["r1"].pc = "idle"
    /\ call["r2"].pc = "write"
    /\ call["r2"].id = resp.id
    /\ call["r2"].updates.Title = Nil
    /\ call["r2"].updates.Description = Ptr(<<"d">>)
    /\ call["r2"].currentTask.title = <<"a">>

(***************************************************************************)
(* Properties of the order of validation and storage, over SpecValidation. *)
(***************************************************************************)
\* C22: a Create or Update whose body fails validation is answered 400
\* without a storage statement being issued for it, whether or not its id
\* has a stored row (so never 404), and the store is as it was: a SELECT of
\* an Update is issued only for a body that validates, and the table
\* changes only in a step answered after a statement that found or made a
\* row, for a body that validates.
C22_InvalidNeverReachesStorage ==
    [][/\ ExpectedMessage' # <<>>
           => /\ resp'.status = StatusBadRequest
              /\ resp'.db = "none"
       /\ \A r \in Reqs :
             UpdateHasRead(r) => ExpectedUpdateMessage(call'[r].updates) = <<>>
       /\ tasks' # tasks
           => /\ resp'.db = "row"
              /\ resp'.req # Nil
              /\ ExpectedMessage' = <<>>]_vars

\* an Update with a status outside the enum, addressed to an id that has no
\* row, has been answered 400 and no statement was issued
C22_Witness ==
    /\ resp.op = "Update"
    /\ resp.id = UUIDs[1]
    /\ resp.id \notin DOMAIN tasks
    /\ resp.req # Nil
    /\ resp.req[1].Title = Nil
    /\ resp.req[1].Status = Ptr("done")
    /\ resp.status = StatusBadRequest
    /\ resp.db = "none"
    /\ call[ValidationReq].pc = "idle"

\* whether a field that is present in the body of a PUT breaks its
\* constraint: a title that is empty or longer than 255, a description
\* longer than 1000, a status that is none of the three
PresentFieldInvalid(q) ==
    \/ q.Title # Nil /\ (Len(Deref(q.Title)) = 0 \/ Len(Deref(q.Title)) > 255)
    \/ q.Description # Nil /\ Len(Deref(q.Description)) > 1000
    \/ q.Status # Nil /\ Deref(q.Status) \notin {"pending", "in_progress", "completed"}

\* C23: an Update in which a present field breaks its constraint (the
\* empty status included) is answered 400 with a validation error and the
\* stored task stays as it was; no other Update that decodes is answered
\* 400, so an absent field never fails and the Update with all three fields
\* absent is valid.
C23_OnlyPresentFieldsAreValidated ==
    [][/\ (resp'.op = "Update" /\ resp'.req # Nil)
           => /\ (resp'.status = StatusBadRequest) = PresentFieldInvalid(resp'.req[1])
              /\ PresentFieldInvalid(resp'.req[1])
                    => /\ SubSeq(resp'.error, 1, 1) = <<"validation error">>
                       /\ resp'.body = <<>>
       /\ (resp'.op = "Update" /\ tasks' # tasks)
           => ~PresentFieldInvalid(resp'.req[1])]_vars

\* an Update whose status is the empty string has been answered 400, the
\* task it names being stored as created
C23_Witness ==
    /\ resp.op = "Update"
    /\ resp.req = Ptr([Title |-> Nil, Description |-> Nil, Status |-> Ptr("")])
    /\ resp.status = StatusBadRequest
    /\ resp.id \in DOMAIN tasks
    /\ tasks[resp.id].status = "pending"
    /\ tasks[resp.id].title = <<"a">>

(***************************************************************************)
(* Properties of the validation message, over SpecFormat.                  *)
(***************************************************************************)
FieldOrder == <<"Title", "Description", "Status">>

\* the fields of the answered body that break a constraint
ViolatingFields ==
    IF resp.req = Nil THEN {}
    ELSE IF resp.op = "Create"
    THEN {f \in {"Title", "Description"} :
             \/ f = "Title" /\ (Len(resp.req[1].Title) = 0 \/ Len(resp.req[1].Title) > 255)
             \/ f = "Description" /\ Len(resp.req[1].Description) > 1000}
    ELSE IF resp.op = "Update"
    THEN {f \in {"Title", "Description", "Status"} :
             \/ f = "Title" /\ resp.req[1].Title # Nil
                  /\ (Len(resp.req[1].Title[1]) = 0 \/ Len(resp.req[1].Title[1]) > 255)
             \/ f = "Description" /\ resp.req[1].Description # Nil
                  /\ Len(resp.req[1].Description[1]) > 1000
             \/ f = "Status" /\ resp.req[1].Status # Nil
                  /\ resp.req[1].Status[1] \notin {"pending", "in_progress", "completed"}}
    ELSE {}

\* the first of them in declared order
FirstViolatingField ==
    FieldOrder[CHOOSE i \in 1..3 :
                   /\ FieldOrder[i] \in ViolatingFields
                   /\ \A j \in 1..(i - 1) : FieldOrder[j] \notin ViolatingFields]

\* the reason given for a constraint kind
ReasonOf(tag, param) ==
    IF tag = "required" THEN <<" is required">>
    ELSE IF tag = "min" THEN <<" must be at least ", param, " characters">>
    ELSE IF tag = "max" THEN <<" must be at most ", param, " characters">>
    ELSE IF tag = "oneof" THEN <<" must be one of: ", param>>
    ELSE <<" is invalid">>

\* C24: a request that breaks the constraints of more than one field is
\* answered 400 with a message that names the first violating field in the
\* order Title, Description, Status and no later one, with the reason of
\* the constraint that field broke; and the message made of a list of
\* FieldErrors is the name of the first one's field followed by 'is
\* required', 'must be at least N characters', 'must be at most N
\* characters', 'must be one of: <list>' or, for any other kind, 'is
\* invalid', whatever follows it in the list.
C24_OnlyFirstFieldIsReported ==
    /\ Cardinality(ViolatingFields) > 1
          => /\ resp.status = StatusBadRequest
             /\ resp.error[3] = FirstViolatingField
             /\ SubSeq(resp.error, 3, Len(resp.error)) = ExpectedMessage
             /\ \A f \in ViolatingFields \ {FirstViolatingField} :
                    f \notin Range(resp.error)
    /\ resp.op = "formatValidationErrors"
          => resp.error = <<resp.req[1][1].Field>>
                              \o ReasonOf(resp.req[1][1].Tag, resp.req[1][1].Param)

\* an Update breaking the constraints of all three fields has been answered
\* with the title's
C24_Witness ==
    /\ resp.op = "Update"
    /\ resp.req # Nil
    /\ ViolatingFields = {"Title", "Description", "Status"}
    /\ resp.status = StatusBadRequest
    /\ resp.error = <<"validation error", ": ", "Title", " must be at least ", "1",
                       " characters">>

(***************************************************************************)
(* Properties of identity, over SpecStored.                                *)
(***************************************************************************)
\* C25: no two stored tasks have the same id, and a step in which an
\* Update writes changes only title, description, status and updated_at of
\* the row with its id: every stored row keeps its id and created_at from
\* step to step (so they stay what they were at creation), and every row
\* but the written one is as it was.
C25_UpdateKeepsIdentity ==
    [][/\ \A a \in DOMAIN tasks', b \in DOMAIN tasks' :
             /\ tasks'[a].id = a
             /\ tasks'[a].id = tasks'[b].id => a = b
       /\ \A id \in DOMAIN tasks \cap DOMAIN tasks' :
             /\ tasks'[id].id = tasks[id].id
             /\ tasks'[id].created_at = tasks[id].created_at
       /\ \A r \in Reqs :
             UpdateWritesRow(r)
                 => /\ DOMAIN tasks' = DOMAIN tasks
                    /\ \A other \in DOMAIN tasks \ {call[r].id} :
                          tasks'[other] = tasks[other]]_vars

\* two tasks are stored; an Update of the one created later, made when the
\* API clock had advanced, has been answered 200, and the other is as it
\* was stored
C25_Witness ==
    /\ DOMAIN tasks = StoredIds
    /\ resp.op = "Update"
    /\ resp.status = StatusOK
    /\ resp.id = UUIDs[1]
    /\ tasks[UUIDs[1]].title = <<"b">>
    /\ tasks[UUIDs[1]].updated_at = 1
    /\ tasks[UUIDs[1]].created_at = 0
    /\ tasks[StoredBefore.id] = StoredBefore

\* C26: an Update never adds a row: a row that was not stored comes only
\* with the answer of a Create; an Update whose SELECT finds no row is
\* answered 404 and issues no UPDATE; and an Update whose row a Delete
\* removed after its SELECT leaves the task absent when it writes.
C26_UpdateNeverCreates ==
    [][/\ DOMAIN tasks' \ DOMAIN tasks # {}
           => /\ resp'.op = "Create"
              /\ resp'.status = StatusCreated
       /\ (resp'.op = "Update" /\ resp'.db = "norow" /\ call' = call)
           => /\ resp'.status = StatusNotFound
              /\ tasks' = tasks
       /\ \A r \in Reqs :
             (call[r].pc = "write" /\ call'[r].pc = "idle"
                /\ call[r].id \notin DOMAIN tasks)
                 => /\ tasks' = tasks
                    /\ resp'.op = "Update"
                    /\ resp'.status # StatusOK
                    /\ resp'.body = <<>>]_vars

\* an Update has issued its UPDATE after a Delete removed the row it had
\* read: it found no row and the task is absent
C26_Witness ==
    /\ resp.op = "Update"
    /\ resp.db = "norow"
    /\ resp.status = StatusInternalServerError
    /\ resp.id = UUIDs[1]
    /\ nextId = 1
    /\ DOMAIN tasks = {}
    /\ \A r \in Reqs : call[r].pc = "idle"

(***************************************************************************)
(* Properties of a failing storage call, over SpecCancel.                  *)
(***************************************************************************)
\* the message each handler sends with its 500
GenericMessage(op) ==
    CASE op = "Create"  -> <<"Failed to create task">>
      [] op = "GetAll"  -> <<"Failed to retrieve tasks">>
      [] op = "GetByID" -> <<"Failed to retrieve task">>
      [] op = "Update"  -> <<"Failed to update task">>
      [] op = "Delete"  -> <<"Failed to delete task">>

C28_PoolOutlivesRequests ==
    /\ InFlight # {} => (dbOpen /\ mainPc \in {"serving", "shutdown"})
    /\ ~dbOpen => mainPc = "stopped"
    /\ mainPc = "closing" => InFlight = {}
    /\ mainPc \in {"exited", "stopped"} => ~ENABLED NextShutdown

\* main has returned with the pool closed, after an Update was answered 200
C28_Witness ==
    /\ mainPc = "stopped"
    /\ ~dbOpen
    /\ InFlight = {}
    /\ resp.op = "Update"
    /\ resp.status = StatusOK
    /\ resp.id \in DOMAIN tasks
    /\ tasks[resp.id].title = <<"b">>

(***************************************************************************)
(* Properties of Delete, over Spec.                                        *)
(***************************************************************************)
\* C29: of the Deletes of one stored id, issued in any order with no Create
\* in between, exactly one is answered 204 and every other one 404: a
\* Delete answered 204 has removed the row, which was stored, a Delete
\* whose statement matched no row is answered 404 and removes nothing, and
\* after a 204 the task is absent.
C29_OneDeleteSucceeds ==
    [][/\ (resp'.op = "Delete" /\ resp'.status = StatusNoContent)
           => /\ resp'.id \in DOMAIN tasks
              /\ tasks' = [i \in DOMAIN tasks \ {resp'.id} |-> tasks[i]]
       /\ (resp'.op = "Delete" /\ resp'.db = "norow")
           => /\ resp'.status = StatusNotFound
              /\ resp'.error = <<"Task not found">>
              /\ resp'.id \notin DOMAIN tasks
              /\ tasks' = tasks
       /\ (resp'.op = "Delete" /\ resp'.db = "row")
           => /\ resp'.status = StatusNoContent
              /\ resp'.id \notin DOMAIN tasks']_vars

\* a Delete of the id of a task that an earlier Delete removed has been
\* answered 404
C29_Witness ==
    /\ resp.op = "Delete"
    /\ resp.id = UUIDs[1]
    /\ resp.db = "norow"
    /\ resp.status = StatusNotFound
    /\ nextId = 1
    /\ DOMAIN tasks = {}

(***************************************************************************)
(* Properties of the middleware chain, over SpecChain.                     *)
(***************************************************************************)
\* C30: the middleware passes every request whose method is not OPTIONS to
\* the next handler exactly once and writes no status itself, whether or
\* not it set Access-Control-Allow-Origin; a denied origin has the other
\* headers as configured, its handler can run, and what the handler
\* answers and stores does not depend on the origin's being granted.
C30_DeniedOriginIsStillServed ==
    /\ (Served /\ corsReq.method # "OPTIONS")
          => /\ corsResp.nextCalls = 1
             /\ corsResp.status = 0
             /\ "Access-Control-Allow-Methods" \in DOMAIN corsResp.headers
                    <=> cfg.AllowedMethods # <<>>
             /\ "Access-Control-Allow-Headers" \in DOMAIN corsResp.headers
                    <=> cfg.AllowedHeaders # <<>>
             /\ "Access-Control-Allow-Credentials" \in DOMAIN corsResp.headers
                    <=> cfg.AllowCredentials
             /\ "Access-Control-Max-Age" \in DOMAIN corsResp.headers
                    <=> cfg.MaxAge > 0
             /\ resp = NoAnswer => ENABLED ServeNext(ChainCreateBodies)
    /\ resp # NoAnswer
          => /\ Served
             /\ corsReq.method # "OPTIONS"
             /\ resp.op = (IF corsReq.method = "POST" THEN "Create" ELSE "GetAll")
             /\ resp.status = StatusCreated <=> DOMAIN tasks # {}

\* a POST from an origin that was denied the header has created a task
C30_Witness ==
    /\ Served
    /\ corsReq.method = "POST"
    /\ corsReq.origin = <<".">>
    /\ cfg.AllowedOrigins = << <<"a">> >>
    /\ ACAO \notin DOMAIN corsResp.headers
    /\ corsResp.nextCalls = 1
    /\ resp.op = "Create"
    /\ resp.status = StatusCreated
    /\ resp.body[1].id \in DOMAIN tasks
====
